---------------------------- MODULE Spec2Model ----------------------------
(***************************************************************************)
(* DistributedExperienceReplay                                             *)
(* (rl_coach/memories/non_episodic/distributed_experience_replay.py):      *)
(* a replay buffer whose only state is one database of a shared redis      *)
(* server.  Every redis command is one atomic round trip; a method of the  *)
(* buffer that issues several commands is a sequence of steps that other   *)
(* callers may interleave with.                                            *)
(*                                                                         *)
(* Client library semantics are those of redis-py 2.x, the only line that  *)
(* accepts the uuid.UUID key of store(): a key that is not bytes, str or   *)
(* a number is sent as its str(), so None is sent as the key 'None', which *)
(* no store() ever wrote.                                                  *)
(***************************************************************************)
EXTENDS Integers, Sequences, FiniteSets, TLC

\* ---- bounds of the model ----
NumProducers == 2      \* concurrent callers of store()
MaxStores    == 3      \* store() calls in one run (uuid4() values drawn)
MaxCapacity  == 2      \* max_size[1] ranges over 0..MaxCapacity
MaxBatch     == 2      \* sample(size) is called with size in 1..MaxBatch
MaxReward    == 1      \* the reward of a transition ranges over 0..MaxReward

Producers == 1..NumProducers
\* The i-th value returned by uuid.uuid4() is the key i; None is 0.
Keys == 1..MaxStores
None == 0
Transition == [reward : 0..MaxReward]

VARIABLES
    max_size,            \* self.max_size[1]
    allow_duplicates_in_batch_sampling,
    db,                  \* the redis database self.db: live key -> blob
    minted,              \* the transitions handed to set(), by key
    pc,                  \* position of each producer inside store()
    uuid,                \* the key a producer's running store() wrote under
    rk,                  \* the randomkey() result a producer is about to delete
    spc,                 \* position of the consumer inside sample()
    size,                \* the argument of the running sample()
    transition_idx,      \* sample()'s dict, in insertion order: <<key, value>>
    key,                 \* sample()'s local `key`
    lastOp,              \* the latest event: a call that began, returned or raised
    otherdb,             \* another database of the same redis server, the one
                         \* of a buffer constructed with another `db`
    drewNone,            \* the producers whose running store() got None
                         \* from randomkey()
    deadAtCall,          \* the keys written and deleted before the running
                         \* sample() was called
    twin                 \* the dict of a sample() of the same size run with
                         \* the other allow_duplicates_in_batch_sampling
                         \* on the same randomkey() results

vars == <<max_size, allow_duplicates_in_batch_sampling, db, minted, pc, uuid, rk,
          spc, size, transition_idx, key, lastOp, otherdb,
          drewNone, deadAtCall, twin>>
config == <<max_size, allow_duplicates_in_batch_sampling>>
sampler == <<spc, size, transition_idx, key, deadAtCall, twin>>

\* ---- results of a call ----
Ok(v)    == [ok |-> TRUE, val |-> v, err |-> ""]
Raise(e) == [ok |-> FALSE, val |-> None, err |-> e]

\* ---- pickle ----
NoneBlob == [tag |-> "None"]
dumps(t) == [tag |-> "bytes", pickle |-> t]
\* pickle.loads(None) raises TypeError (a bytes-like object is required)
loads(b) == IF b.tag = "bytes" THEN Ok(b.pickle) ELSE Raise("TypeError")

\* ---- the redis commands, on the database self.db ----
LiveKeys == DOMAIN db
\* GET answered from a copy of everything that was ever SET
get_Cached(k) ==
    IF k \in 1..Len(minted) THEN dumps(minted[k]) ELSE NoneBlob

\* GET: the blob, or None for a key that is not there (also for the key 'None')
get(k) == IF k \in LiveKeys THEN db[k] ELSE NoneBlob
\* SET
set(k, b) == [x \in LiveKeys \cup {k} |-> IF x = k THEN b ELSE db[x]]
\* (a DEL that removes nothing)
delete_Noop(k) == db
\* DEL: no error when the key is not there
delete(k) == [x \in LiveKeys \ {k} |-> db[x]]
\* RANDOMKEY: one of the live keys, None when the database is empty
randomkey == IF LiveKeys = {} THEN {None} ELSE LiveKeys
\* FLUSHALL
flushall == [x \in {} |-> NoneBlob]

\* info(section='keyspace')['db<n>']['keys']: INFO lists only the databases
\* that hold a key, so the lookup of 'db<n>' raises KeyError on an empty one.
num_transitions ==
    IF LiveKeys = {} THEN Raise("KeyError") ELSE Ok(Cardinality(LiveKeys))

\* ---- bookkeeping of calls ----
Pending == [ok |-> FALSE, val |-> None, err |-> "pending"]
\* arg: the key of store(), get_transition() and remove_transition(), the
\* size of sample()
Called(op, a) == [op |-> op, arg |-> a, res |-> Pending]
Returned(op, a, res) == [op |-> op, arg |-> a, res |-> res]

Quiescent == spc = "idle" /\ \A p \in Producers : pc[p] = "idle"

Init ==
    /\ max_size \in 0..MaxCapacity
    /\ allow_duplicates_in_batch_sampling \in BOOLEAN
    /\ db = flushall
    /\ minted = <<>>
    /\ pc = [p \in Producers |-> "idle"]
    /\ uuid = [p \in Producers |-> None]
    /\ rk = [p \in Producers |-> None]
    /\ spc = "idle"
    /\ size = 0
    /\ transition_idx = <<>>
    /\ key = None
    /\ lastOp = Returned("init", None, Ok(None))
    /\ otherdb = flushall
    /\ drewNone = {}
    /\ deadAtCall = {}
    /\ twin = [idx |-> <<>>, raised |-> FALSE]

\* ---- store(), lines 120-132 ----
\* store() without line 132: the new key is written and nothing is evicted
StoreCall_NoEnforce(p, t) ==
    /\ pc[p] = "idle"
    /\ Len(minted) < MaxStores
    /\ LET k == Len(minted) + 1 IN
         /\ db' = set(k, dumps(t))
         /\ minted' = Append(minted, t)
         /\ lastOp' = Returned("store", k, Ok(None))
    /\ UNCHANGED <<config, otherdb, drewNone, sampler, pc, uuid, rk>>

\* uuid.uuid4(), pickle.dumps and SET; then _enforce_max_length() starts
StoreCall(p, t) ==
    /\ pc[p] = "idle"
    /\ Len(minted) < MaxStores
    /\ LET k == Len(minted) + 1 IN
         /\ db' = set(k, dumps(t))
         /\ minted' = Append(minted, t)
         /\ uuid' = [uuid EXCEPT ![p] = k]
         /\ lastOp' = Called("store", k)
    /\ pc' = [pc EXCEPT ![p] = "enforce"]
    /\ UNCHANGED <<config, otherdb, drewNone, sampler, rk>>

\* ---- _enforce_max_length(), lines 106-118 ----
\* the loop of line 115 with the test `> size + 1`
EnforceTest_OffByOne(p) ==
    /\ pc[p] = "enforce"
    /\ IF max_size # 0 /\ num_transitions.ok /\ num_transitions.val > max_size + 1
         THEN /\ pc' = [pc EXCEPT ![p] = "randomkey"]
              /\ UNCHANGED <<uuid, lastOp, drewNone>>
         ELSE /\ pc' = [pc EXCEPT ![p] = "idle"]
              /\ uuid' = [uuid EXCEPT ![p] = None]
              /\ drewNone' = drewNone \ {p}
              /\ lastOp' = Returned("store", uuid[p],
                               IF max_size # 0 /\ ~num_transitions.ok
                               THEN Raise(num_transitions.err) ELSE Ok(None))
    /\ UNCHANGED <<config, otherdb, db, minted, rk, sampler>>

\* the loop of line 115 with the test `>= size`
EnforceTest_Geq(p) ==
    /\ pc[p] = "enforce"
    /\ IF max_size # 0 /\ num_transitions.ok /\ num_transitions.val >= max_size
         THEN /\ pc' = [pc EXCEPT ![p] = "randomkey"]
              /\ UNCHANGED <<uuid, lastOp, drewNone>>
         ELSE /\ pc' = [pc EXCEPT ![p] = "idle"]
              /\ uuid' = [uuid EXCEPT ![p] = None]
              /\ drewNone' = drewNone \ {p}
              /\ lastOp' = Returned("store", uuid[p],
                               IF max_size # 0 /\ ~num_transitions.ok
                               THEN Raise(num_transitions.err) ELSE Ok(None))
    /\ UNCHANGED <<config, otherdb, db, minted, rk, sampler>>

\* the loop of line 115 without `size != 0`
EnforceTest_NoZeroTest(p) ==
    /\ pc[p] = "enforce"
    /\ IF num_transitions.ok /\ num_transitions.val > max_size
         THEN /\ pc' = [pc EXCEPT ![p] = "randomkey"]
              /\ UNCHANGED <<uuid, lastOp, drewNone>>
         ELSE /\ pc' = [pc EXCEPT ![p] = "idle"]
              /\ uuid' = [uuid EXCEPT ![p] = None]
              /\ drewNone' = drewNone \ {p}
              /\ lastOp' = Returned("store", uuid[p],
                               IF ~num_transitions.ok
                               THEN Raise(num_transitions.err) ELSE Ok(None))
    /\ UNCHANGED <<config, otherdb, db, minted, rk, sampler>>

\* The test of the while loop: size != 0 and self.num_transitions() > size.
\* (The granularity is Transitions, or __init__ would have raised.)
EnforceTest(p) ==
    /\ pc[p] = "enforce"
    /\ IF max_size # 0 /\ num_transitions.ok /\ num_transitions.val > max_size
         THEN /\ pc' = [pc EXCEPT ![p] = "randomkey"]
              /\ UNCHANGED <<uuid, lastOp, drewNone>>
         ELSE \* the loop ends, or num_transitions() raised: store() is over
              /\ pc' = [pc EXCEPT ![p] = "idle"]
              /\ uuid' = [uuid EXCEPT ![p] = None]
              /\ drewNone' = drewNone \ {p}
              /\ lastOp' = Returned("store", uuid[p],
                               IF max_size # 0 /\ ~num_transitions.ok
                               THEN Raise(num_transitions.err) ELSE Ok(None))
    /\ UNCHANGED <<config, otherdb, db, minted, rk, sampler>>

\* the argument of delete(): self.redis_connection.randomkey()
EnforceRandomKey(p) ==
    /\ pc[p] = "randomkey"
    /\ \E k \in randomkey :
         /\ rk' = [rk EXCEPT ![p] = k]
         /\ drewNone' = IF k = None THEN drewNone \cup {p} ELSE drewNone
    /\ pc' = [pc EXCEPT ![p] = "delete"]
    /\ UNCHANGED <<config, otherdb, db, minted, uuid, sampler, lastOp>>

\* self.redis_connection.delete(<that key>)
EnforceDelete(p) ==
    /\ pc[p] = "delete"
    /\ db' = delete(rk[p])
    /\ rk' = [rk EXCEPT ![p] = None]
    /\ pc' = [pc EXCEPT ![p] = "enforce"]
    /\ UNCHANGED <<config, otherdb, drewNone, minted, uuid, sampler, lastOp>>

\* ---- sample(), lines 74-104 ----
idx_keys(idx) == {idx[i][1] : i \in 1..Len(idx)}
\* (a list that is appended to in place of a dict)
idx_put_Append(idx, k, v) == Append(idx, <<k, v>>)
\* transition_idx[k] = v on a dict that keeps insertion order
idx_put(idx, k, v) ==
    IF k \in idx_keys(idx)
    THEN [i \in 1..Len(idx) |-> IF idx[i][1] = k THEN <<k, v>> ELSE idx[i]]
    ELSE Append(idx, <<k, v>>)
\* transition_idx.values()
idx_values(idx) == [i \in 1..Len(idx) |-> idx[i][2]]

\* The same sample() under the other duplicates policy, one pass of its loop
\* for each randomkey() result of the running one.
TwinIdle == [idx |-> <<>>, raised |-> FALSE]
\* lines 83 and 90: with duplicates there is no test before the loop
twin_call(dup, n) ==
    IF dup \/ (num_transitions.ok /\ num_transitions.val >= n)
    THEN TwinIdle
    ELSE [idx |-> <<>>, raised |-> TRUE]
\* lines 84-86 and 91-95: one pass of the loop on the randomkey() result k
twin_pass(dup, n, tw, k) ==
    IF tw.raised \/ Len(tw.idx) = n THEN tw
    ELSE IF ~dup /\ k \in idx_keys(tw.idx) THEN tw
    ELSE LET t == loads(get(k)) IN
         IF t.ok THEN [idx |-> idx_put(tw.idx, k, t.val), raised |-> FALSE]
                 ELSE [idx |-> tw.idx, raised |-> TRUE]

SampleCall(n) ==
    /\ spc = "idle"
    /\ size' = n
    /\ transition_idx' = <<>>
    /\ key' = None
    /\ deadAtCall' = (1..Len(minted)) \ LiveKeys
    /\ twin' = twin_call(~allow_duplicates_in_batch_sampling, n)
    /\ spc' = IF allow_duplicates_in_batch_sampling THEN "loop" ELSE "check"
    /\ lastOp' = Called("sample", n)
    /\ UNCHANGED <<config, otherdb, drewNone, db, minted, pc, uuid, rk>>

\* sample() is over: its locals are gone, the caller holds the outcome
SampleOver(res) ==
    /\ spc' = "idle"
    /\ size' = 0
    /\ transition_idx' = <<>>
    /\ key' = None
    /\ deadAtCall' = {}
    /\ twin' = TwinIdle
    /\ lastOp' = Returned("sample", size, res)

\* line 90: if self.num_transitions() >= size
SampleCheck ==
    /\ spc = "check"
    /\ IF ~num_transitions.ok
         THEN SampleOver(Raise(num_transitions.err))
         ELSE /\ spc' = IF num_transitions.val >= size THEN "loop" ELSE "raise"
              /\ UNCHANGED <<size, transition_idx, key, deadAtCall, twin, lastOp>>
    /\ UNCHANGED <<config, otherdb, drewNone, db, minted, pc, uuid, rk>>

\* lines 98-99: the message of the ValueError calls num_transitions() again
SampleRaise ==
    /\ spc = "raise"
    /\ SampleOver(IF num_transitions.ok THEN Raise("ValueError")
                                        ELSE Raise(num_transitions.err))
    /\ UNCHANGED <<config, otherdb, drewNone, db, minted, pc, uuid, rk>>

\* the loop of lines 84 and 91 left one element early
SampleReturn_OneShort ==
    /\ spc = "loop"
    /\ Len(transition_idx) >= size - 1
    /\ SampleOver(Ok(transition_idx))
    /\ UNCHANGED <<config, otherdb, drewNone, db, minted, pc, uuid, rk>>

\* the test of the while loop fails, lines 84 and 91: lines 102-104 return
\* transition_idx.values() (kept here with the key of each value)
SampleReturn ==
    /\ spc = "loop"
    /\ Len(transition_idx) = size
    /\ SampleOver(Ok(transition_idx))
    /\ UNCHANGED <<config, otherdb, drewNone, db, minted, pc, uuid, rk>>

\* lines 85 and 92-94: key = randomkey(); without duplicates a key already
\* in the dict goes back to the test of the loop
SampleDraw(k) ==
    /\ spc = "loop"
    /\ Len(transition_idx) # size
    /\ k \in randomkey
    /\ key' = k
    /\ spc' = IF ~allow_duplicates_in_batch_sampling /\ k \in idx_keys(transition_idx)
              THEN "loop" ELSE "fetch"
    /\ twin' = twin_pass(~allow_duplicates_in_batch_sampling, size, twin, k)
    /\ UNCHANGED <<config, otherdb, drewNone, db, minted, pc, uuid, rk, size, transition_idx,
                   deadAtCall, lastOp>>

\* lines 86 and 95: transition_idx[key] = pickle.loads(get(key))
SampleFetch ==
    /\ spc = "fetch"
    /\ LET t == loads(get(key)) IN
         IF t.ok
         THEN /\ transition_idx' = idx_put(transition_idx, key, t.val)
              /\ spc' = "loop"
              /\ UNCHANGED <<size, key, deadAtCall, twin, lastOp>>
         ELSE SampleOver(t)
    /\ UNCHANGED <<config, otherdb, drewNone, db, minted, pc, uuid, rk>>

\* ---- the calls of one round trip ----
\* (a get that takes the transition out of the database)
GetTransition_Pop(k) ==
    /\ lastOp' = Returned("get", k, loads(get(k)))
    /\ db' = delete(k)
    /\ UNCHANGED <<config, otherdb, drewNone, minted, pc, uuid, rk, sampler>>
\* get_transition(), lines 134-143 (get() forwards to it, lines 159-167)
GetTransition(k) ==
    /\ lastOp' = Returned("get", k, loads(get(k)))
    /\ UNCHANGED <<config, otherdb, drewNone, db, minted, pc, uuid, rk, sampler>>

\* remove_transition(), lines 145-156 (remove() forwards to it, lines 170-178)
RemoveTransition(k) ==
    /\ db' = delete(k)
    /\ lastOp' = Returned("remove", k, Ok(None))
    /\ UNCHANGED <<config, otherdb, drewNone, minted, pc, uuid, rk, sampler>>

\* clean(), lines 180-187: FLUSHALL empties every database of the server
Clean ==
    /\ db' = flushall
    /\ otherdb' = flushall
    /\ lastOp' = Returned("clean", None, Ok(None))
    /\ UNCHANGED <<config, drewNone, minted, pc, uuid, rk, sampler>>

\* store() of the buffer on the other database, whose max_size is 0: its
\* SET, and a loop that does not run
OtherStore ==
    /\ Cardinality(DOMAIN otherdb) < MaxStores
    /\ otherdb' = [x \in 1..(Cardinality(DOMAIN otherdb) + 1) |->
                     dumps([reward |-> 0])]
    /\ lastOp' = Returned("other_store", Cardinality(DOMAIN otherdb) + 1, Ok(None))
    /\ UNCHANGED <<config, drewNone, db, minted, pc, uuid, rk, sampler>>

\* length(), lines 60-64
Length ==
    /\ lastOp' = Returned("length", None, num_transitions)
    /\ UNCHANGED <<config, otherdb, drewNone, db, minted, pc, uuid, rk, sampler>>

\* mean_reward(), lines 189-199, under one caller: keys(), a get() and a
\* pickle.loads per key, and np.mean of the rewards
RECURSIVE sum_rewards(_)
sum_rewards(ks) ==
    IF ks = {} THEN 0
    ELSE LET k == CHOOSE x \in ks : TRUE
         IN  loads(get(k)).val.reward + sum_rewards(ks \ {k})

\* sum(rewards) / len(rewards): raises ZeroDivisionError on an empty list
mean_SumOverLen(ks) ==
    IF ks = {} THEN Raise("ZeroDivisionError")
    ELSE Ok([num |-> sum_rewards(ks), den |-> Cardinality(ks)])

\* np.mean: the sum over the number of rewards, as the fraction num/den; of
\* an empty list it is 0.0/0 = nan, returned with a RuntimeWarning
mean(ks) == Ok([num |-> sum_rewards(ks), den |-> Cardinality(ks)])
IsNaN(x) == x.den = 0

MeanReward ==
    /\ lastOp' = Returned("mean_reward", None, mean(LiveKeys))
    /\ UNCHANGED <<config, otherdb, drewNone, db, minted, pc, uuid, rk, sampler>>

\* ---- specifications ----
\* a store() in progress issues its next command
StoreStep ==
    \/ \E p \in Producers : EnforceTest(p)
    \/ \E p \in Producers : EnforceRandomKey(p)
    \/ \E p \in Producers : EnforceDelete(p)

\* the sample() in progress issues its next command
SampleStep ==
    \/ SampleCheck
    \/ SampleRaise
    \/ SampleReturn
    \/ \E k \in Keys \cup {None} : SampleDraw(k)
    \/ SampleFetch

\* one caller: a call begins only when no other call is in progress
SeqStoreCall(p, t) == Quiescent /\ StoreCall(p, t)
SeqSampleCall(n) == Quiescent /\ SampleCall(n)
SeqRemoveTransition(k) == Quiescent /\ RemoveTransition(k)
SeqClean == Quiescent /\ Clean
SeqGetTransition(k) == Quiescent /\ GetTransition(k)
SeqLength == Quiescent /\ Length
SeqMeanReward == Quiescent /\ MeanReward

SeqNext ==
    \/ \E p \in Producers, t \in Transition : SeqStoreCall(p, t)
    \/ \E n \in 1..MaxBatch : SeqSampleCall(n)
    \/ \E k \in Keys : SeqRemoveTransition(k)
    \/ SeqClean
    \/ \E k \in Keys : SeqGetTransition(k)
    \/ SeqLength
    \/ StoreStep
    \/ SampleStep
SeqSpec == Init /\ [][SeqNext]_vars

\* one caller with mean_reward() among its calls
SeqReadNext ==
    \/ SeqNext
    \/ SeqMeanReward
SeqReadSpec == Init /\ [][SeqReadNext]_vars

\* one caller that only stores
StoreSeqNext ==
    \/ \E p \in Producers, t \in Transition : SeqStoreCall(p, t)
    \/ StoreStep
StoreSeqSpec == Init /\ [][StoreSeqNext]_vars

\* two buffers on one server, each on its own database, one caller
SeqOtherStore == Quiescent /\ OtherStore
NamespaceNext ==
    \/ \E p \in Producers, t \in Transition : SeqStoreCall(p, t)
    \/ StoreStep
    \/ SeqClean
    \/ SeqOtherStore
NamespaceSpec == Init /\ [][NamespaceNext]_vars

\* randomkey() in the loop of sample() returns a key that is not in the dict
SampleDrawNew ==
    \E k \in LiveKeys \ idx_keys(transition_idx) : SampleDraw(k)

\* A call in progress issues its next command, and RANDOMKEY is random: when
\* again and again a key not yet drawn is live, one such key is drawn.
Fairness ==
    /\ WF_vars(StoreStep)
    /\ WF_vars(SampleStep)
    /\ SF_vars(SampleDrawNew)
FairSeqSpec == SeqSpec /\ Fairness

\* The writers, any number of them at once, no locking: producers in store(),
\* and callers of remove_transition() and clean().  store() never reads the
\* transition it pickles, so the writers all store the same one.
Next ==
    \/ \E p \in Producers : StoreCall(p, [reward |-> 0])
    \/ StoreStep
    \/ \E k \in Keys : RemoveTransition(k)
    \/ Clean
Spec == Init /\ [][Next]_vars

\* Producers in store() at once and nothing else: store() is the only
\* operation that writes.
StoreNext ==
    \/ \E p \in Producers : StoreCall(p, [reward |-> 0])
    \/ StoreStep
StoreSpec == Init /\ [][StoreNext]_vars

\* While a store() is in progress some producer issues its next command.  A
\* producer inside store() stays ready to step until it steps, so this is no
\* more than weak fairness of every producer gives.
StoreFairness == WF_vars(StoreStep)
FairStoreSpec == StoreSpec /\ StoreFairness

\* a consumer in sample() while the writers run, one store() at a time
NoStore == \A p \in Producers : pc[p] = "idle"
LoneStoreCall(p, t) == NoStore /\ StoreCall(p, t)
SampleNext ==
    \/ \E n \in 1..MaxBatch : SampleCall(n)
    \/ SampleStep
    \/ \E p \in Producers, t \in Transition : LoneStoreCall(p, t)
    \/ StoreStep
    \/ \E k \in Keys : RemoveTransition(k)
    \/ Clean
SampleSpec == Init /\ [][SampleNext]_vars

\* ---- properties ----
Count == Cardinality(LiveKeys)
Min(a, b) == IF a < b THEN a ELSE b
\* the state right after store() returned or raised, under one caller
StoreOver == Quiescent /\ lastOp.op = "store"

\* C1: with a capacity above 0 and one caller, the database holds at most
\* max_size keys in the state right after a store() (its SET and its eviction
\* loop) is over, in every run that starts from the empty database.
C1_CountWithinCapacityAfterStore ==
    (StoreOver /\ max_size > 0) => (lastOp.res.ok /\ Count <= max_size)

\* a store() into a full database is over: it evicted
C1_Witness ==
    /\ StoreOver
    /\ max_size > 0
    /\ Len(minted) > max_size
    /\ Count = max_size

\* C2: from the empty database with capacity C > 0, after k store() calls of
\* one caller and no other call, the database holds exactly min(k, C) keys,
\* each of them written by one of the k calls with the transition it stored.
C2_CountIsMinAfterStores ==
    (Quiescent /\ max_size > 0) =>
        /\ Count = Min(Len(minted), max_size)
        /\ LiveKeys \subseteq 1..Len(minted)
        /\ \A k \in LiveKeys : loads(get(k)) = Ok(minted[k])

\* more stores than the capacity, and an older key was the one evicted last
C2_Witness ==
    /\ Quiescent
    /\ max_size > 0
    /\ Len(minted) > max_size
    /\ Count = max_size
    /\ Len(minted) \in LiveKeys
    /\ 1 \notin LiveKeys

\* C3: with a capacity above 0 and any number of concurrent store() calls,
\* whenever no store() is in progress the database holds at most max_size
\* keys, however the commands of the calls interleaved.
C3_CountWithinCapacityAtQuiescence ==
    (NoStore /\ max_size > 0) => Count <= max_size

\* two store() calls overlapped (the one that wrote the older key was over
\* last) and the database is full
C3_Witness ==
    /\ NoStore
    /\ max_size > 0
    /\ lastOp.op = "store"
    /\ lastOp.res.ok
    /\ lastOp.arg < Len(minted)
    /\ Count = max_size

\* C4: under one caller, the transition of a store() that is over is live:
\* its key is in the database and holds the transition that was stored.
C4_StoredIsLive ==
    StoreOver =>
        /\ lastOp.arg \in LiveKeys
        /\ loads(get(lastOp.arg)) = Ok(minted[lastOp.arg])

\* the state right after sample() returned or raised, under one caller
SampleOverNow == Quiescent /\ lastOp.op = "sample"
\* a batch of n values fetched under n pairwise distinct live keys
GoodBatch(b, n) ==
    /\ Len(b) = n
    /\ \A i, j \in 1..Len(b) : i # j => b[i][1] # b[j][1]
    /\ \A i \in 1..Len(b) :
          b[i][1] \in LiveKeys /\ loads(get(b[i][1])) = Ok(b[i][2])

C6_SampleRaisesInsufficientData ==
    (SampleOverNow /\ ~allow_duplicates_in_batch_sampling /\ Count < lastOp.arg)
        => (~lastOp.res.ok /\ lastOp.res.err = "ValueError")

\* C7: with duplicates allowed and under one caller, a sample(n) running on
\* a database of at least one key comes to return a batch of n transitions.
C7_SampleWithDuplicatesReturns ==
    (spc = "loop" /\ allow_duplicates_in_batch_sampling /\ Count >= 1)
        ~> (SampleOverNow /\ lastOp.res.ok
              /\ Len(lastOp.res.val) = lastOp.arg)

\* C8: when the key that sample() drew was deleted before sample() fetches
\* it, the fetch adds nothing to the batch and sample() draws again.
C8_FetchMissRetries ==
    [][(spc = "fetch" /\ key # None /\ key \notin LiveKeys /\ spc' # "fetch")
         => (spc' = "loop" /\ transition_idx' = transition_idx)]_vars

\* C9: get_transition(k) of a key that is not in the database returns None
\* and raises nothing.
C9_GetOfAbsentKeyReturnsNone ==
    (lastOp.op = "get" /\ lastOp.arg \notin LiveKeys)
        => (lastOp.res.ok /\ lastOp.res.val = None)

\* C10: under one caller, the length() that follows a clean() returns 0.
C10_LengthAfterCleanIsZero ==
    [][(lastOp.op = "clean" /\ lastOp'.op = "length")
         => (lastOp'.res.ok /\ lastOp'.res.val = 0)]_vars

\* C11: clean() of this buffer leaves the database of a buffer constructed
\* with another `db` as it was: the same keys, the same count.
C11_CleanLeavesOtherNamespace ==
    [][lastOp'.op = "clean" => otherdb' = otherdb]_vars

\* C12: a store() whose eviction loop got None from randomkey() (the database
\* was emptied after the loop saw more than max_size keys) ends without
\* raising an error.
C12_AbsentRandomKeyEndsStoreQuietly ==
    [][\A p \in Producers :
         (p \in drewNone /\ pc[p] # "idle" /\ pc'[p] = "idle") => lastOp'.res.ok]_vars

Entries(idx) == {idx[i] : i \in 1..Len(idx)}

\* C13: in both modes and with writers running, every transition that
\* sample() puts in its batch is the one a store() wrote under the key, the key
\* was live when sample() fetched it and it was not deleted before sample()
\* was called; the batch returned is made of these transitions.
C13_BatchHoldsStoredLiveTransitions ==
    /\ [](\A e \in Entries(transition_idx) :
             /\ e[1] \in 1..Len(minted)
             /\ e[2] = minted[e[1]]
             /\ e[1] \notin deadAtCall)
    /\ [][/\ (transition_idx' # transition_idx /\ transition_idx' # <<>>)
               => /\ key \in LiveKeys
                  /\ Entries(transition_idx') \ Entries(transition_idx)
                        = {<<key, db[key].pickle>>}
          /\ (spc = "loop" /\ spc' = "idle" /\ lastOp'.res.ok)
               => lastOp'.res.val = transition_idx]_vars

\* sample() has its batch of `size` transitions: one of them was deleted
\* after it was fetched, and other keys were deleted before the call
C13_Witness ==
    /\ spc = "loop"
    /\ Len(transition_idx) = size
    /\ deadAtCall # {}
    /\ \E e \in Entries(transition_idx) : e[1] \notin LiveKeys

\* C14: with max_size 0 no step of a store() deletes a key, whatever else
\* runs: the SET adds one key, every key that was live stays live with its
\* blob, the eviction loop never draws a key, and store() raises nothing.
C14_UnboundedStoreNeverDeletes ==
    [][(max_size = 0 /\ pc' # pc) =>
         /\ \A k \in LiveKeys : k \in DOMAIN db' /\ db'[k] = db[k]
         /\ Cardinality(DOMAIN db') =
               Count + (IF Len(minted') > Len(minted) THEN 1 ELSE 0)
         /\ \A p \in Producers : pc'[p] \in {"idle", "enforce"}
         /\ (lastOp' # lastOp /\ Len(minted') = Len(minted)) => lastOp'.res.ok]_vars

\* with max_size 0, two store() calls that overlapped are over and every
\* key ever written is live
C14_Witness ==
    /\ max_size = 0
    /\ NoStore
    /\ lastOp.op = "store"
    /\ lastOp.res.ok
    /\ lastOp.arg < Len(minted)
    /\ LiveKeys = 1..Len(minted)

InStore == {p \in Producers : pc[p] # "idle"}
\* C16: with max_size > 0 and store() the only writer, in every state of every
\* interleaving the count is at most max_size plus the number of store()
\* calls that have done their SET and have not left _enforce_max_length().
C16_CountWithinCapacityPlusInFlight ==
    max_size > 0 => Count <= max_size + Cardinality(InStore)

\* every producer is in store() and each of them has put the count one
\* further above max_size
C16_Witness ==
    /\ max_size > 0
    /\ Cardinality(InStore) >= 2
    /\ Count = max_size + Cardinality(InStore)

\* C17: with concurrent store() calls and no other writer, once the count has
\* reached max_size it never drops below max_size: the loop of
\* _enforce_max_length() removes no more than the excess.
C17_CountNeverDropsBelowCapacity ==
    [][(max_size > 0 /\ Count >= max_size) => Count' >= max_size]_vars

ReadOps == {"sample", "get", "length", "mean_reward"}
ReadStep ==
    \/ sampler' # sampler
    \/ lastOp' # lastOp /\ lastOp'.op \in ReadOps

\* C19: sample(), get_transition(), num_transitions() and mean_reward() only
\* read: no step of theirs, whether the call returns, raises or goes round
\* its loop, changes the keys or the blob of a key, in this database or in
\* another; and no step of any operation changes max_size or
\* allow_duplicates_in_batch_sampling.
C19_ReadOperationsLeaveStore ==
    [][/\ ReadStep => (db' = db /\ otherdb' = otherdb)
       /\ config' = config]_vars

\* a sample() raised on a database that holds keys, and every key written is
\* there with the blob it was written with
C19_Witness ==
    /\ lastOp.op = "sample"
    /\ ~lastOp.res.ok
    /\ LiveKeys # {}
    /\ LiveKeys = 1..Len(minted)
    /\ \A k \in LiveKeys : db[k] = dumps(minted[k])

\* C20: with max_size > 0, every producer running on and the number of
\* store() calls finite, every store() that has begun comes to its end, by
\* returning or by raising: the loop of _enforce_max_length() does not run
\* forever.
C20_EveryStoreCompletes ==
    \A p \in Producers : (max_size > 0 /\ pc[p] # "idle") ~> (pc[p] = "idle")

\* a producer is about to delete a key that another producer deleted after
\* it was drawn
C20_Witness ==
    \E p \in Producers :
        /\ max_size > 0
        /\ pc[p] = "delete"
        /\ rk[p] # None
        /\ rk[p] \notin LiveKeys
        /\ Count > max_size

=============================================================================
